---------------------------- MODULE Spec2Model ----------------------------
(***************************************************************************)
(* A model of scripts/create_dunedaq_package.py: the script that clones an *)
(* empty package repository, fills it with a directory skeleton and        *)
(* instantiated templates, writes CMakeLists.txt and commits.              *)
(*                                                                         *)
(* Text (names, paths, file contents) is a sequence of strings.  What the  *)
(* user supplies (package, module and application names) is spelled one    *)
(* character per element, so that the regular expressions, upper()/lower() *)
(* and str.replace() of the script are computed on characters.  Literal    *)
(* text of the script that holds no placeholder token is kept as one       *)
(* multi-character element.                                                *)
(***************************************************************************)
EXTENDS Integers, Sequences, FiniteSets

VARIABLES
    environ,      \* os.environ: the set of variables that are defined
    argv,         \* sys.argv[1:], the option occurrences in command-line order
    positional,   \* the positional argument of the command line (or None)
    remote,       \* the content of the remote repository that git clone copies
    pc,           \* the position of the script
    package,      \* package (line 61)
    args,         \* the parsed options (line 58)
    repodir,      \* repodir (line 81)
    repo_exists,  \* os.path.exists(repodir)
    dirs,         \* directories below repodir, as paths relative to it
    files,        \* files below repodir: relative path -> content
    calls,        \* the seven accumulator lists (lines 122-128)
    cmakelists,   \* what has been written to the open CMakeLists.txt, one element per write()
    idx,          \* the position of the running for loop in its list
    message,      \* which message the script ended with
    exit_code     \* the exit status of the process (-1 while it runs)

vars == <<environ, argv, positional, remote, pc, package, args, repodir, repo_exists,
          dirs, files, calls, cmakelists, idx, message, exit_code>>

-----------------------------------------------------------------------------
(* Bounds of the model *)

\* the largest number of option occurrences on the command line
MaxArgs == 2
\* the most segments, and the longest segment, of a path handed to cleanup()
\* when it is checked on its own
MaxSegments == 2
MaxSegLen == 2
\* the longest package name when cleanup() is checked on its own
MaxPkgLen == 2

-----------------------------------------------------------------------------
(* Characters and strings *)

Range(s) == {s[k] : k \in DOMAIN s}

UpperLetters ==
    <<"A","B","C","D","E","F","G","H","I","J","K","L","M",
      "N","O","P","Q","R","S","T","U","V","W","X","Y","Z">>

LowerLetters ==
    <<"a","b","c","d","e","f","g","h","i","j","k","l","m",
      "n","o","p","q","r","s","t","u","v","w","x","y","z">>

\* [A-Z]
IsUpper(c) == c \in Range(UpperLetters)

UpperChar(c) ==
    IF \E k \in 1..26 : LowerLetters[k] = c
    THEN UpperLetters[CHOOSE k \in 1..26 : LowerLetters[k] = c]
    ELSE c

LowerChar(c) ==
    IF \E k \in 1..26 : UpperLetters[k] = c
    THEN LowerLetters[CHOOSE k \in 1..26 : UpperLetters[k] = c]
    ELSE c

\* str.upper()
Upper(s) == [k \in DOMAIN s |-> UpperChar(s[k])]

\* str.lower()
Lower(s) == [k \in DOMAIN s |-> LowerChar(s[k])]

\* s[n:]
Drop(s, n) == SubSeq(s, n + 1, Len(s))

\* s.startswith(t)
StartsWith(s, t) == Len(s) >= Len(t) /\ SubSeq(s, 1, Len(t)) = t

\* str.replace(old, new) for a non-empty old: every non-overlapping occurrence,
\* found from the left
RECURSIVE Replace(_, _, _)
Replace(s, old, new) ==
    IF Len(s) < Len(old) THEN s
    ELSE IF StartsWith(s, old)
         THEN new \o Replace(Drop(s, Len(old)), old, new)
         ELSE <<s[1]>> \o Replace(Tail(s), old, new)

\* t in s
Contains(s, t) == \E k \in 0..(Len(s) - Len(t)) : SubSeq(s, k + 1, k + Len(t)) = t

\* the concatenation of a sequence of texts
RECURSIVE Flatten(_)
Flatten(ss) == IF ss = <<>> THEN <<>> ELSE Head(ss) \o Flatten(Tail(ss))

-----------------------------------------------------------------------------
(* The placeholder tokens of the templates *)

RenameMe == <<"R","e","n","a","m","e","M","e">>
PACKAGE  == <<"P","A","C","K","A","G","E">>
RENAMEME == <<"R","E","N","A","M","E","M","E">>
package_token == <<"p","a","c","k","a","g","e">>
renameme == <<"r","e","n","a","m","e","m","e">>


\* templates/RenameMe.hpp: the include guard, the namespace and the class
Template_RenameMe_hpp ==
    <<"#ifndef ">> \o PACKAGE \o <<"_PLUGINS_">> \o RENAMEME \o <<"_HPP_ namespace dunedaq::">>
    \o package_token \o <<" { class ">> \o RenameMe \o <<" : public DAQModule }">>

\* templates/RenameMe.cpp: the includes, the namespace and the module definition
Template_RenameMe_cpp ==
    <<"#include ">> \o RenameMe \o <<".hpp #include ">> \o package_token \o <<"/">> \o renameme
    \o <<"/Nljs.hpp namespace dunedaq::">> \o package_token \o <<" { ">> \o RenameMe
    \o <<"::">> \o RenameMe \o <<"() }">>

\* templates/renameme.jsonnet: the schema path
Template_renameme_jsonnet ==
    <<"moo.oschema.schema(dunedaq.">> \o package_token \o <<".">> \o renameme \o <<")">>

\* templates/renamemeinfo.jsonnet: the schema path of the info structure
Template_renamemeinfo_jsonnet ==
    <<"moo.oschema.schema(dunedaq.">> \o package_token \o <<".">> \o renameme \o <<"i","n","f","o",")">>

\* the four template files of a module: name, suffix (pathlib's), text
ModuleTemplates ==
    << [name |-> RenameMe \o <<".hpp">>, suffix |-> ".hpp", text |-> Template_RenameMe_hpp],
       [name |-> RenameMe \o <<".cpp">>, suffix |-> ".cpp", text |-> Template_RenameMe_cpp],
       [name |-> renameme \o <<".jsonnet">>, suffix |-> ".jsonnet",
        text |-> Template_renameme_jsonnet],
       [name |-> renameme \o <<"i","n","f","o",".jsonnet">>, suffix |-> ".jsonnet",
        text |-> Template_renamemeinfo_jsonnet] >>

\* templates/renameme.cxx: the application stub
Template_renameme_cxx == <<"// ">> \o renameme \o <<".cxx int main() { return 0; }">>

-----------------------------------------------------------------------------
(* The inputs of a run *)

None == <<"None">>

\* --daq-module values: a PascalCase name, one that starts in lower case, one
\* whose second character is an underscore
ModuleNames == { <<"A","b">>, <<"a","b">>, <<"A","_">> }

\* --user-app and --test-app values: a snake_case name and one with an upper-case letter
AppNames == { <<"a","b">>, <<"a","B">> }

\* package names; a dot is the one character of a GitHub repository name that is
\* special in a regular expression
PackageNames == { <<"p","k">>, <<"a",".","b">> }

Option(flag, value) == [flag |-> flag, value |-> value]

Options ==
    { Option("--main-library", <<>>), Option("--python-bindings", <<>>) }
    \cup { Option("--daq-module", m) : m \in ModuleNames }
    \cup { Option("--user-app", a) : a \in AppNames }
    \cup { Option("--test-app", a) : a \in AppNames }

SeqsUpTo(S, n) == UNION { [1..k -> S] : k \in 0..n }

\* the values of the occurrences of an option, in command-line order (action="append")
RECURSIVE Appended(_, _)
Appended(av, flag) ==
    IF av = <<>> THEN <<>>
    ELSE (IF Head(av).flag = flag THEN <<Head(av).value>> ELSE <<>>) \o Appended(Tail(av), flag)

\* parser.parse_args(); a list that argparse leaves None is the empty list here,
\* the script only tests its truth value
ParseArgs(av) ==
    [ contains_main_library    |-> \E k \in DOMAIN av : av[k].flag = "--main-library",
      contains_python_bindings |-> \E k \in DOMAIN av : av[k].flag = "--python-bindings",
      daq_modules |-> Appended(av, "--daq-module"),
      user_apps   |-> Appended(av, "--user-app"),
      test_apps   |-> Appended(av, "--test-app") ]

NoArgs == ParseArgs(<<>>)

-----------------------------------------------------------------------------
(* The naming checks *)

\* the check with the pattern cut to "^[A-Z]"
ModuleNameMatches_FirstLetterOnly(module) ==
    /\ Len(module) >= 1
    /\ IsUpper(module[1])

\* re.search(r"^[A-Z][^_]+", module)
ModuleNameMatches(module) ==
    /\ Len(module) >= 2
    /\ IsUpper(module[1])
    /\ module[2] # "_"

\* the check with the pattern anchored, "^[A-Z]"
AppNameHasUpper_FirstLetterOnly(app) ==
    /\ Len(app) >= 1
    /\ IsUpper(app[1])

\* re.search(r"[A-Z]", app)
AppNameHasUpper(app) == \E k \in DOMAIN app : IsUpper(app[k])

-----------------------------------------------------------------------------
(* The file system below repodir *)

DotGit    == <<".git">>
ReadmeMd  == <<"README.md">>
Docs      == <<"docs">>
GitKeep   == <<".gitkeep">>
OtherFile == <<"LICENSE">>

NoFiles == [p \in {} |-> <<>>]

Put(f, p, c) == [q \in (DOMAIN f) \cup {p} |-> IF q = p THEN c ELSE f[q]]

Remove(f, p) == [q \in (DOMAIN f) \ {p} |-> f[q]]

\* os.path.exists of a path below repodir
Exists(fs, p) == p \in fs.dirs \/ p \in DOMAIN fs.files

\* os.listdir(d), as a set
ListDir(fs, d) ==
    { p[Len(d) + 1] : p \in { q \in fs.dirs \cup DOMAIN fs.files :
                                 Len(q) = Len(d) + 1 /\ SubSeq(q, 1, Len(d)) = d } }

\* os.makedirs(d, exist_ok=True): d and every missing directory above it
MakeDirs(fs, d) ==
    [fs EXCEPT !.dirs = @ \cup { SubSeq(d, 1, k) : k \in 1..Len(d) }]

\* open(path, "w") ... write(content)
WriteFile(fs, p, content) == [fs EXCEPT !.files = Put(@, p, content)]

\* make_package_dir(dirname), for a dirname that is no file
make_package_dir(fs, d) ==
    LET made == MakeDirs(fs, d)
    IN  IF ~Exists(made, d \o <<GitKeep>>)
        THEN WriteFile(made, d \o <<GitKeep>>, <<>>)
        ELSE made

\* the check that lets README.md and docs stand together
LooksEmpty_ReadmeAndDocs(listing) ==
    /\ DotGit \in listing
    /\ listing \subseteq {DotGit, ReadmeMd, Docs}

\* the condition of line 114, negated: the clone looks empty
LooksEmpty(listing) ==
    \/ listing = {DotGit}
    \/ listing = {DotGit, ReadmeMd}
    \/ listing = {DotGit, Docs}


-----------------------------------------------------------------------------
(* cleanup *)

\* re.search(pattern, s) for a pattern of literal characters and dots
RegexSearch(pattern, s) ==
    \E k \in 0..(Len(s) - Len(pattern)) :
        \A j \in 1..Len(pattern) : pattern[j] = "." \/ pattern[j] = s[k + j]

\* cleanup(repodir): what the call does, "rmtree" or the assertion that fails
cleanup(path) ==
    IF repo_exists
    THEN IF RegexSearch(<<"/">> \o package, path)
         THEN "rmtree"
         ELSE "assert_untrusted"
    ELSE "assert_missing"

-----------------------------------------------------------------------------
(* Template instantiation *)

\* lines 185-195: the five replacements, in this order
Substitute(sourcecode, pkg, module) ==
    LET s1 == Replace(sourcecode, RenameMe, module)
        s2 == Replace(s1, PACKAGE, Upper(pkg))
        s3 == Replace(s2, RENAMEME, Upper(module))
        s4 == Replace(s3, package_token, Lower(pkg))
        s5 == Replace(s4, renameme, Lower(module))
    IN  s5

\* lines 171-176: where a module's template goes, relative to repodir
DestFilename(t, pkg, module) ==
    IF t.suffix \in {".hpp", ".cpp"}
    THEN << <<"plugins">>, Replace(t.name, RenameMe, module) >>
    ELSE << <<"schema">>, pkg, Replace(t.name, renameme, Lower(module)) >>

\* lines 169-198 for one module: the four files, in the order of the list
RECURSIVE InstantiateFrom(_, _, _, _)
InstantiateFrom(fs, k, pkg, module) ==
    IF k > Len(ModuleTemplates) THEN fs
    ELSE InstantiateFrom(
            WriteFile(fs, DestFilename(ModuleTemplates[k], pkg, module),
                      Substitute(ModuleTemplates[k].text, pkg, module)),
            k + 1, pkg, module)

InstantiateModule(fs, pkg, module) == InstantiateFrom(fs, 1, pkg, module)

\* lines 211-218 and 234-241: an application's source file
InstantiateApp(fs, dir, app) ==
    WriteFile(fs, dir \o << app \o <<".cxx">> >>, Replace(Template_renameme_cxx, renameme, app))

-----------------------------------------------------------------------------
(* The build-descriptor fragments *)

EmptyCalls ==
    [ find_package_calls |-> <<>>, daq_codegen_calls |-> <<>>, daq_add_library_calls |-> <<>>,
      daq_add_python_bindings_calls |-> <<>>, daq_add_plugin_calls |-> <<>>,
      daq_add_application_calls |-> <<>>, daq_add_unit_test_calls |-> <<>> ]

FindPackage(pkg) == <<"find_package(", pkg, " REQUIRED)">>

LibraryCall ==
    <<"daq_add_library( LINK_LIBRARIES ) # Any source files and/or dependent libraries to link in not yet determined">>

PythonBindingsCall ==
    <<"\ndaq_add_python_bindings(*.cpp LINK_LIBRARIES ${PROJECT_NAME} ) # Any additional libraries to link in beyond the main library not yet determined\n">>

PluginCall(module) ==
    <<"daq_add_plugin(">> \o module
    \o <<" duneDAQModule LINK_LIBRARIES appfwk::appfwk) # Replace appfwk library with a more specific library when appropriate">>

CodegenCall(module) ==
    <<"daq_codegen(">> \o Lower(module) \o <<".jsonnet TEMPLATES Structs.hpp.j2 Nljs.hpp.j2)">>

CodegenInfoCall(module) ==
    <<"daq_codegen(">> \o Lower(module)
    \o <<"info.jsonnet DEP_PKGS opmonlib TEMPLATES opmonlib/InfoStructs.hpp.j2 opmonlib/InfoNljs.hpp.j2)">>

UserAppCall(app) ==
    <<"daq_add_application(">> \o app \o <<" ">> \o app
    \o <<".cxx LINK_LIBRARIES ) # Any libraries to link in not yet determined">>

TestAppCall(app) ==
    <<"daq_add_application(">> \o app \o <<" ">> \o app
    \o <<".cxx TEST LINK_LIBRARIES ) # Any libraries to link in not yet determined">>

UnitTestCall ==
    <<"daq_add_unit_test(Placeholder_test LINK_LIBRARIES)  # Any libraries to link in not yet determined">>

BoostFindPackage == <<"find_package(Boost COMPONENTS unit_test_framework REQUIRED)">>

\* lines 149-150: the two lookups a package with modules needs
ModuleFindPackages(c) ==
    [c EXCEPT !.find_package_calls = @ \o <<FindPackage("appfwk"), FindPackage("opmonlib")>>]

\* the fragments of one module, with the two lookups appended inside the loop
ModuleCalls_LookupsPerModule(c, module) ==
    [c EXCEPT !.find_package_calls = @ \o <<FindPackage("appfwk"), FindPackage("opmonlib")>>,
              !.daq_add_plugin_calls = Append(@, PluginCall(module)),
              !.daq_codegen_calls = @ \o <<CodegenCall(module), CodegenInfoCall(module)>>]

\* lines 165-167: the fragments of one module
ModuleCalls(c, module) ==
    [c EXCEPT !.daq_add_plugin_calls = Append(@, PluginCall(module)),
              !.daq_codegen_calls = @ \o <<CodegenCall(module), CodegenInfoCall(module)>>]

\* print_cmakelists_section(list_of_calls, section_of_webpage): its write() calls
print_cmakelists_section(list_of_calls, section_of_webpage) ==
    Flatten([k \in DOMAIN list_of_calls |->
                (IF k = 1 /\ section_of_webpage # None
                 THEN << <<"\n# See https://dune-daq-sw.readthedocs.io/en/latest/packages/daq-cmake/#">>
                         \o section_of_webpage \o <<"\n">> >>
                 ELSE <<>>)
                \o << <<"\n">> \o list_of_calls[k] >>])
    \o (IF Len(list_of_calls) > 0
        THEN << <<"\n\n##############################################################################\n\n">> >>
        ELSE <<>>)

CMakeListsHeader(pkg) ==
    <<"\n\n# This is a skeleton CMakeLists.txt file, auto-generated on ", "<date>",
      ". [...]\n\ncmake_minimum_required(VERSION 3.12)\nproject(">> \o pkg
    \o <<" VERSION 0.0.0)\n\nfind_package(daq-cmake REQUIRED)\n\ndaq_setup_environment()\n\n">>

DaqInstall == <<"daq_install()\n\n">>

\* the writes with the applications printed before the plugins
CMakeListsWrites_AppsBeforePlugins(c, pkg) ==
    << CMakeListsHeader(pkg) >>
    \o print_cmakelists_section(c.find_package_calls, None)
    \o print_cmakelists_section(c.daq_codegen_calls, <<"daq_codegen">>)
    \o print_cmakelists_section(c.daq_add_library_calls, <<"daq_add_library">>)
    \o print_cmakelists_section(c.daq_add_python_bindings_calls, <<"daq_add_python_bindings">>)
    \o print_cmakelists_section(c.daq_add_application_calls, <<"daq_add_application">>)
    \o print_cmakelists_section(c.daq_add_plugin_calls, <<"daq_add_plugin">>)
    \o print_cmakelists_section(c.daq_add_unit_test_calls, <<"daq_add_unit_test">>)
    \o << DaqInstall >>

\* lines 287-315: every write() to CMakeLists.txt, in order
CMakeListsWrites(c, pkg) ==
    << CMakeListsHeader(pkg) >>
    \o print_cmakelists_section(c.find_package_calls, None)
    \o print_cmakelists_section(c.daq_codegen_calls, <<"daq_codegen">>)
    \o print_cmakelists_section(c.daq_add_library_calls, <<"daq_add_library">>)
    \o print_cmakelists_section(c.daq_add_python_bindings_calls, <<"daq_add_python_bindings">>)
    \o print_cmakelists_section(c.daq_add_plugin_calls, <<"daq_add_plugin">>)
    \o print_cmakelists_section(c.daq_add_application_calls, <<"daq_add_application">>)
    \o print_cmakelists_section(c.daq_add_unit_test_calls, <<"daq_add_unit_test">>)
    \o << DaqInstall >>

\* the sweep without its test of the listing: every .gitkeep goes
SweepGitKeep_Everywhere(fs) ==
    [fs EXCEPT !.files = [q \in { r \in DOMAIN fs.files : r[Len(r)] # GitKeep } |-> fs.files[q]]]

\* lines 320-323: the files left once .gitkeep is removed from every directory
\* whose listing is not exactly [".gitkeep"]
SweepGitKeep(fs) ==
    LET doomed == { d \o <<GitKeep>> : d \in { e \in fs.dirs \cup {<<>>} :
                        /\ ListDir(fs, e) # {GitKeep}
                        /\ (e \o <<GitKeep>>) \in DOMAIN fs.files } }
    IN  [fs EXCEPT !.files = [q \in (DOMAIN fs.files) \ doomed |-> fs.files[q]]]


-----------------------------------------------------------------------------
(* The run of the script *)

\* what a clone can hold below its top directory
UserText == <<"text written by the package's developers">>

Tree(ds, fnames) == [dirs |-> {<<DotGit>>} \cup ds, files |-> [p \in fnames |-> UserText]]

DocsFiles == { <<Docs, ReadmeMd>>, <<Docs, GitKeep>>, <<Docs, <<"guide.md">> >> }

RemoteContents ==
    { Tree({}, {}), Tree({}, {<<ReadmeMd>>}), Tree({}, {<<Docs>>}),
      Tree({}, {<<OtherFile>>}), Tree({<<Docs>>}, {<<ReadmeMd>>, <<Docs, ReadmeMd>>}) }
    \cup { Tree({<<Docs>>}, fnames) : fnames \in (SUBSET DocsFiles) \ {{}} }

\* os.environ["DBT_AREA_ROOT"] + "/sourcecode"
sourcedir == <<"/","w","/","s","o","u","r","c","e","c","o","d","e">>

FS == [dirs |-> dirs, files |-> files]

SetFS(fs) == dirs' = fs.dirs /\ files' = fs.files

\* sys.exit(1), after the message
Die(msg) ==
    /\ pc' = "failed"
    /\ message' = msg
    /\ exit_code' = 1

\* error(msg) with the call of cleanup left out
CleanupAndError_NoCleanup(msg) ==
    /\ UNCHANGED <<repo_exists, dirs, files>>
    /\ Die(msg)

\* cleanup(repodir) followed by error(msg); a failed assertion ends the run
\* with a traceback instead and deletes nothing
CleanupAndError(msg) ==
    IF cleanup(repodir) = "rmtree"
    THEN /\ repo_exists' = FALSE
         /\ dirs' = {}
         /\ files' = NoFiles
         /\ Die(msg)
    ELSE /\ UNCHANGED <<repo_exists, dirs, files>>
         /\ Die("AssertionError")

Init ==
    /\ environ \in SUBSET {"DBT_ROOT", "DBT_AREA_ROOT"}
    /\ argv \in SeqsUpTo(Options, MaxArgs)
    /\ positional \in PackageNames \cup {None}
    /\ repo_exists \in BOOLEAN
    /\ remote = Tree({}, {})
    /\ pc = "start"
    /\ package = None
    /\ args = NoArgs
    /\ repodir = <<>>
    /\ dirs = {}
    /\ files = NoFiles
    /\ calls = EmptyCalls
    /\ cmakelists = <<>>
    /\ idx = 0
    /\ message = ""
    /\ exit_code = -1

\* lines 13-17
CheckDbtRoot ==
    /\ pc = "start"
    /\ IF "DBT_ROOT" \in environ
       THEN pc' = "parse_args" /\ UNCHANGED <<message, exit_code>>
       ELSE Die("no daq-buildtools environment")
    /\ UNCHANGED <<environ, argv, positional, remote, package, args, repodir, repo_exists,
                   dirs, files, calls, cmakelists, idx>>

\* lines 58-64
ParseArguments ==
    /\ pc = "parse_args"
    /\ args' = ParseArgs(argv)
    /\ IF positional # None
       THEN package' = positional /\ pc' = "area_root" /\ UNCHANGED <<message, exit_code>>
       ELSE Die("usage") /\ UNCHANGED package
    /\ UNCHANGED <<environ, argv, positional, remote, repodir, repo_exists,
                   dirs, files, calls, cmakelists, idx>>

\* lines 72-82
CheckAreaRoot ==
    /\ pc = "area_root"
    /\ IF "DBT_AREA_ROOT" \in environ
       THEN /\ repodir' = sourcedir \o <<"/">> \o package
            /\ pc' = "git_clone"
            /\ UNCHANGED <<message, exit_code>>
       ELSE Die("no DBT_AREA_ROOT") /\ UNCHANGED repodir
    /\ UNCHANGED <<environ, argv, positional, remote, package, args, repo_exists,
                   dirs, files, calls, cmakelists, idx>>

\* the exit status of git when the repository is missing or the directory exists
GitFatal == 128

\* lines 84-94; a directory of the package's name that is already there makes
\* the clone fail
GitClone ==
    /\ pc = "git_clone"
    /\ \E retval \in {0, 1, GitFatal} : \E content \in RemoteContents :
        /\ repo_exists => retval # 0
        /\ IF retval = GitFatal
           THEN Die("git clone: no repository, or the directory exists")
                /\ UNCHANGED <<remote, repo_exists, dirs, files>>
           ELSE IF retval # 0
           THEN Die("git clone: unexpected error")
                /\ UNCHANGED <<remote, repo_exists, dirs, files>>
           ELSE /\ remote' = content
                /\ repo_exists' = TRUE
                /\ SetFS(content)
                /\ pc' = "check_empty"
                /\ UNCHANGED <<message, exit_code>>
    /\ UNCHANGED <<environ, argv, positional, package, args, repodir, calls, cmakelists, idx>>

\* lines 112-128
CheckEmpty ==
    /\ pc = "check_empty"
    /\ IF ~LooksEmpty(ListDir(FS, <<>>))
       THEN CleanupAndError("the repository is not empty") /\ UNCHANGED calls
       ELSE /\ calls' = EmptyCalls
            /\ pc' = "main_library"
            /\ UNCHANGED <<repo_exists, dirs, files, message, exit_code>>
    /\ UNCHANGED <<environ, argv, positional, remote, package, args, repodir, cmakelists, idx>>

\* lines 132-135
MainLibrary ==
    /\ pc = "main_library"
    /\ IF args.contains_main_library
       THEN /\ SetFS(make_package_dir(make_package_dir(FS, << <<"src">> >>), << <<"include">> >>))
            /\ calls' = [calls EXCEPT !.daq_add_library_calls = Append(@, LibraryCall)]
       ELSE UNCHANGED <<dirs, files, calls>>
    /\ pc' = "python_bindings"
    /\ UNCHANGED <<environ, argv, positional, remote, package, args, repodir, repo_exists,
                   cmakelists, idx, message, exit_code>>

\* lines 137-142
PythonBindings ==
    /\ pc = "python_bindings"
    /\ IF args.contains_python_bindings
       THEN /\ SetFS(WriteFile(WriteFile(make_package_dir(FS, << <<"pybindsrc">> >>),
                        << <<"pybindsrc">>, <<"module.cpp">> >>, <<"templates/module.cpp">>),
                        << <<"pybindsrc">>, <<"renameme.cpp">> >>, <<"templates/renameme.cpp">>))
            /\ calls' = [calls EXCEPT !.daq_add_python_bindings_calls =
                                            Append(@, PythonBindingsCall)]
       ELSE UNCHANGED <<dirs, files, calls>>
    /\ pc' = "daq_modules"
    /\ UNCHANGED <<environ, argv, positional, remote, package, args, repodir, repo_exists,
                   cmakelists, idx, message, exit_code>>

\* lines 144-154
DaqModulesBegin ==
    /\ pc = "daq_modules"
    /\ IF args.daq_modules # <<>>
       THEN /\ calls' = ModuleFindPackages(calls)
            /\ SetFS(make_package_dir(make_package_dir(make_package_dir(FS,
                        << <<"src">> >>), << <<"plugins">> >>), << <<"schema">>, package >>))
            /\ idx' = 1
            /\ pc' = "daq_module"
       ELSE /\ pc' = "user_apps"
            /\ UNCHANGED <<dirs, files, calls, idx>>
    /\ UNCHANGED <<environ, argv, positional, remote, package, args, repodir, repo_exists,
                   cmakelists, message, exit_code>>

\* lines 156-198, one iteration
DaqModule ==
    /\ pc = "daq_module"
    /\ LET module == args.daq_modules[idx]
       IN  IF ~ModuleNameMatches(module)
           THEN CleanupAndError("module name not in PascalCase") /\ UNCHANGED <<calls, idx>>
           ELSE /\ calls' = ModuleCalls(calls, module)
                /\ SetFS(InstantiateModule(FS, package, module))
                /\ IF idx < Len(args.daq_modules)
                   THEN idx' = idx + 1 /\ pc' = "daq_module"
                   ELSE idx' = 0 /\ pc' = "user_apps"
                /\ UNCHANGED <<repo_exists, message, exit_code>>
    /\ UNCHANGED <<environ, argv, positional, remote, package, args, repodir, cmakelists>>


\* lines 200-201
UserAppsBegin ==
    /\ pc = "user_apps"
    /\ IF args.user_apps # <<>>
       THEN /\ SetFS(make_package_dir(FS, << <<"apps">> >>))
            /\ idx' = 1
            /\ pc' = "user_app"
       ELSE /\ pc' = "test_apps"
            /\ UNCHANGED <<dirs, files, idx>>
    /\ UNCHANGED <<environ, argv, positional, remote, package, args, repodir, repo_exists,
                   calls, cmakelists, message, exit_code>>

\* lines 203-220, one iteration
UserApp ==
    /\ pc = "user_app"
    /\ LET user_app == args.user_apps[idx]
       IN  IF AppNameHasUpper(user_app)
           THEN CleanupAndError("user application name not in snake_case")
                /\ UNCHANGED <<calls, idx>>
           ELSE /\ SetFS(InstantiateApp(FS, << <<"apps">> >>, user_app))
                /\ calls' = [calls EXCEPT !.daq_add_application_calls =
                                                Append(@, UserAppCall(user_app))]
                /\ IF idx < Len(args.user_apps)
                   THEN idx' = idx + 1 /\ pc' = "user_app"
                   ELSE idx' = 0 /\ pc' = "test_apps"
                /\ UNCHANGED <<repo_exists, message, exit_code>>
    /\ UNCHANGED <<environ, argv, positional, remote, package, args, repodir, cmakelists>>

\* lines 223-224
TestAppsBegin ==
    /\ pc = "test_apps"
    /\ IF args.test_apps # <<>>
       THEN /\ SetFS(make_package_dir(FS, << <<"test">>, <<"apps">> >>))
            /\ idx' = 1
            /\ pc' = "test_app"
       ELSE /\ pc' = "unittest"
            /\ UNCHANGED <<dirs, files, idx>>
    /\ UNCHANGED <<environ, argv, positional, remote, package, args, repodir, repo_exists,
                   calls, cmakelists, message, exit_code>>

\* lines 226-243, one iteration
TestApp ==
    /\ pc = "test_app"
    /\ LET test_app == args.test_apps[idx]
       IN  IF AppNameHasUpper(test_app)
           THEN CleanupAndError("test application name not in snake_case")
                /\ UNCHANGED <<calls, idx>>
           ELSE /\ SetFS(InstantiateApp(FS, << <<"test">>, <<"apps">> >>, test_app))
                /\ calls' = [calls EXCEPT !.daq_add_application_calls =
                                                Append(@, TestAppCall(test_app))]
                /\ IF idx < Len(args.test_apps)
                   THEN idx' = idx + 1 /\ pc' = "test_app"
                   ELSE idx' = 0 /\ pc' = "unittest"
                /\ UNCHANGED <<repo_exists, message, exit_code>>
    /\ UNCHANGED <<environ, argv, positional, remote, package, args, repodir, cmakelists>>

\* lines 245-248
UnitTest ==
    /\ pc = "unittest"
    /\ SetFS(WriteFile(make_package_dir(FS, << <<"unittest">> >>),
                       << <<"unittest">>, <<"Placeholder_test.cxx">> >>,
                       <<"templates/Placeholder_test.cxx">>))
    /\ calls' = [calls EXCEPT !.daq_add_unit_test_calls = Append(@, UnitTestCall),
                              !.find_package_calls = Append(@, BoostFindPackage)]
    /\ pc' = "docs"
    /\ UNCHANGED <<environ, argv, positional, remote, package, args, repodir, repo_exists,
                   cmakelists, idx, message, exit_code>>

PlaceholderReadme ==
    <<"# No Official User Documentation Has Been Written Yet (", "<date>", ")\n">>

\* git mv README.md docs/README.md
GitMvReadme(fs) ==
    [fs EXCEPT !.files = Put(Remove(@, <<ReadmeMd>>), <<Docs, ReadmeMd>>, fs.files[<<ReadmeMd>>])]

\* lines 250-262; os.makedirs raises FileExistsError when docs is a file
DocsReadme ==
    /\ pc = "docs"
    /\ IF <<Docs>> \in DOMAIN files
       THEN /\ Die("FileExistsError")
            /\ UNCHANGED <<repo_exists, dirs, files>>
       ELSE IF ~Exists(FS, <<ReadmeMd>>)
       THEN /\ SetFS(WriteFile(make_package_dir(FS, <<Docs>>), <<Docs, ReadmeMd>>,
                               PlaceholderReadme))
            /\ pc' = "cmake"
            /\ UNCHANGED <<repo_exists, message, exit_code>>
       ELSE \E retval \in {0, 1} :
              IF retval # 0
              THEN CleanupAndError("git mv of README.md failed")
              ELSE /\ SetFS(GitMvReadme(make_package_dir(FS, <<Docs>>)))
                   /\ pc' = "cmake"
                   /\ UNCHANGED <<repo_exists, message, exit_code>>
    /\ UNCHANGED <<environ, argv, positional, remote, package, args, repodir, calls,
                   cmakelists, idx>>

\* lines 264-272
ConfigTemplate ==
    /\ pc = "cmake"
    /\ \E retval \in {0, 1} :
          IF retval # 0
          THEN CleanupAndError("download of Config.cmake.in failed")
          ELSE /\ SetFS(WriteFile(make_package_dir(FS, << <<"cmake">> >>),
                                  << <<"cmake">>, package \o <<"Config.cmake.in">> >>,
                                  <<"configs/Config.cmake.in">>))
               /\ pc' = "cmakelists"
               /\ UNCHANGED <<repo_exists, message, exit_code>>
    /\ UNCHANGED <<environ, argv, positional, remote, package, args, repodir, calls,
                   cmakelists, idx>>

\* lines 274-315
WriteCMakeLists ==
    /\ pc = "cmakelists"
    /\ cmakelists' = CMakeListsWrites(calls, package)
    /\ SetFS(WriteFile(FS, << <<"CMakeLists.txt">> >>, Flatten(CMakeListsWrites(calls, package))))
    /\ pc' = "sweep"
    /\ UNCHANGED <<environ, argv, positional, remote, package, args, repodir, repo_exists,
                   calls, idx, message, exit_code>>

\* lines 317-323
RemoveGitKeeps ==
    /\ pc = "sweep"
    /\ SetFS(SweepGitKeep(FS))
    /\ pc' = "git_add"
    /\ UNCHANGED <<environ, argv, positional, remote, package, args, repodir, repo_exists,
                   calls, cmakelists, idx, message, exit_code>>

\* lines 325-332
GitAdd ==
    /\ pc = "git_add"
    /\ \E retval \in {0, 1} :
          IF retval # 0
          THEN Die("git add failed")
          ELSE pc' = "git_commit" /\ UNCHANGED <<message, exit_code>>
    /\ UNCHANGED <<environ, argv, positional, remote, package, args, repodir, repo_exists,
                   dirs, files, calls, cmakelists, idx>>

\* lines 334-342; the script ends after the commit, with status 0
GitCommit ==
    /\ pc = "git_commit"
    /\ \E retval \in {0, 1} :
          IF retval # 0
          THEN Die("git commit failed")
          ELSE pc' = "done" /\ message' = "committed" /\ exit_code' = 0
    /\ UNCHANGED <<environ, argv, positional, remote, package, args, repodir, repo_exists,
                   dirs, files, calls, cmakelists, idx>>

Next ==
    \/ CheckDbtRoot
    \/ ParseArguments
    \/ CheckAreaRoot
    \/ GitClone
    \/ CheckEmpty
    \/ MainLibrary
    \/ PythonBindings
    \/ DaqModulesBegin
    \/ DaqModule
    \/ UserAppsBegin
    \/ UserApp
    \/ TestAppsBegin
    \/ TestApp
    \/ UnitTest
    \/ DocsReadme
    \/ ConfigTemplate
    \/ WriteCMakeLists
    \/ RemoveGitKeeps
    \/ GitAdd
    \/ GitCommit

Spec == Init /\ [][Next]_vars


-----------------------------------------------------------------------------
(* cleanup() on its own: one call, on any path, for any package name *)

SegmentChars == {"a", "b"}

\* a dot is the one character of a GitHub repository name that is special in a
\* regular expression
PackageChars == {"a", "b", "."}

\* "/" + "/".join(segments)
RECURSIVE JoinPath(_)
JoinPath(segments) ==
    IF segments = <<>> THEN <<>> ELSE <<"/">> \o Head(segments) \o JoinPath(Tail(segments))

AbsolutePaths ==
    { JoinPath(segments) :
        segments \in SeqsUpTo(SeqsUpTo(SegmentChars, MaxSegLen) \ {<<>>}, MaxSegments) \ {<<>>} }

InitCleanup ==
    /\ environ = {"DBT_ROOT", "DBT_AREA_ROOT"}
    /\ argv = <<>>
    /\ package \in { n \in SeqsUpTo(PackageChars, MaxPkgLen) \ {<<>>} : n[1] # "." }
    /\ positional = package
    /\ repodir \in AbsolutePaths
    /\ repo_exists \in BOOLEAN
    /\ remote = Tree({}, {})
    /\ pc = "cleanup"
    /\ args = NoArgs
    /\ dirs = {}
    /\ files = NoFiles
    /\ calls = EmptyCalls
    /\ cmakelists = <<>>
    /\ idx = 0
    /\ message = ""
    /\ exit_code = -1

\* lines 96-105: a call of cleanup(repodir) that is not followed by error()
CleanupCall ==
    /\ pc = "cleanup"
    /\ IF cleanup(repodir) = "rmtree"
       THEN /\ repo_exists' = FALSE
            /\ pc' = "cleanup_returned"
            /\ UNCHANGED <<message, exit_code>>
       ELSE /\ Die("AssertionError")
            /\ UNCHANGED repo_exists
    /\ UNCHANGED <<environ, argv, positional, remote, package, args, repodir,
                   dirs, files, calls, cmakelists, idx>>

SpecCleanup == InitCleanup /\ [][CleanupCall]_vars

-----------------------------------------------------------------------------
(* Module generation on its own: from a fresh, empty clone, for module and  *)
(* package names that meet the placeholder tokens                           *)

\* PascalCase names, two of them with "package" inside
TemplateModuleNames ==
    { <<"A","b">>, <<"A","B">>,
      <<"R","e","p","a","c","k","a","g","e","r">>,
      <<"S","u","b","p","a","c","k","a","g","e">> }

TemplatePackageNames ==
    { <<"p","k">>, <<"P","k">>, <<"a",".","b">> }

InitModules ==
    /\ environ = {"DBT_ROOT", "DBT_AREA_ROOT"}
    /\ argv \in { [k \in DOMAIN ms |-> Option("--daq-module", ms[k])] :
                    ms \in SeqsUpTo(TemplateModuleNames, 2) \ {<<>>} }
    /\ package \in TemplatePackageNames
    /\ positional = package
    /\ repodir = sourcedir \o <<"/">> \o package
    /\ repo_exists = TRUE
    /\ remote = Tree({}, {})
    /\ pc = "daq_modules"
    /\ args = ParseArgs(argv)
    /\ dirs = remote.dirs
    /\ files = remote.files
    /\ calls = EmptyCalls
    /\ cmakelists = <<>>
    /\ idx = 0
    /\ message = ""
    /\ exit_code = -1

NextModules ==
    \/ DaqModulesBegin
    \/ DaqModule

SpecModules == InitModules /\ [][NextModules]_vars


-----------------------------------------------------------------------------
(* Vocabulary of the properties.  The naming rules and the expected paths   *)
(* are written out here a second time, from the statements they are checked *)
(* against, so that they do not move with the definitions above.            *)

Plugins == <<"plugins">>
Schema  == <<"schema">>
Apps    == <<"apps">>
Test    == <<"test">>

\* the simplified PascalCase rule: an upper-case letter, then at least one
\* character, the first of which is no underscore
PascalCaseRule(name) ==
    /\ name # <<>>
    /\ name[1] \in Range(UpperLetters)
    /\ Len(name) > 1
    /\ name[2] # "_"

\* the snake_case rule: no upper-case letter
SnakeCaseRule(name) == \A k \in DOMAIN name : name[k] \notin Range(UpperLetters)

RequestedModules == Appended(argv, "--daq-module")
RequestedUserApps == Appended(argv, "--user-app")
RequestedTestApps == Appended(argv, "--test-app")

HasBadModule == \E k \in DOMAIN RequestedModules : ~PascalCaseRule(RequestedModules[k])
HasBadUserApp == \E k \in DOMAIN RequestedUserApps : ~SnakeCaseRule(RequestedUserApps[k])
HasBadTestApp == \E k \in DOMAIN RequestedTestApps : ~SnakeCaseRule(RequestedTestApps[k])

\* the names of a list before its first name that breaks the rule
GoodPrefix(names, Rule(_)) ==
    { names[k] : k \in { j \in DOMAIN names : \A h \in 1..j : Rule(names[h]) } }

\* a generated file of some module: anything but the marker in plugins/ or schema/<package>/
IsModuleFile(p) ==
    \/ Len(p) = 2 /\ p[1] = Plugins /\ p[2] # GitKeep
    \/ Len(p) = 3 /\ p[1] = Schema /\ p[3] # GitKeep

\* the four files of one module
ModuleFilesOf(pkg, m) ==
    { <<Plugins, m \o <<".hpp">> >>, <<Plugins, m \o <<".cpp">> >>,
      <<Schema, pkg, Lower(m) \o <<".jsonnet">> >>,
      <<Schema, pkg, Lower(m) \o <<"i","n","f","o",".jsonnet">> >> }

IsUserAppFile(p) == Len(p) = 2 /\ p[1] = Apps /\ p[2] # GitKeep
IsTestAppFile(p) == Len(p) = 3 /\ p[1] = Test /\ p[2] = Apps /\ p[3] # GitKeep

NothingLeft == ~repo_exists /\ dirs = {} /\ DOMAIN files = {}

PascalCaseMessage == "module name not in PascalCase"
UserAppMessage == "user application name not in snake_case"
TestAppMessage == "test application name not in snake_case"

\* the positions of the script after the module loop
AfterModules ==
    {"user_apps", "user_app", "test_apps", "test_app", "unittest", "docs", "cmake",
     "cmakelists", "sweep", "git_add", "git_commit", "done"}

AfterUserApps == AfterModules \ {"user_apps", "user_app"}

AfterTestApps == AfterUserApps \ {"test_apps", "test_app"}

-----------------------------------------------------------------------------
(* C1 *)

-----------------------------------------------------------------------------
(* C2 *)

\* C2, as stated: when some --user-app (--test-app) name has an upper-case
\* letter, no file is ever written in apps/ (test/apps/), for any name of
\* that list, and the abort on that name leaves the cloned directory deleted.
C2_NoAppFileAtAll ==
    /\ HasBadUserApp => \A p \in DOMAIN files : ~IsUserAppFile(p)
    /\ HasBadTestApp => \A p \in DOMAIN files : ~IsTestAppFile(p)
    /\ (message \in {UserAppMessage, TestAppMessage} => NothingLeft /\ exit_code = 1)

\* C2, amended: when some --user-app (--test-app) name has an upper-case
\* letter, the run never gets past the loop over that list; the only files
\* ever written in apps/ (test/apps/) are those of the names before the
\* first name with an upper-case letter; and the abort on that name deletes
\* the cloned directory, those files included, and exits with status 1.
C2_AbortAtFirstBadApp ==
    /\ HasBadUserApp =>
          /\ pc \notin AfterUserApps
          /\ \A p \in DOMAIN files :
                IsUserAppFile(p) =>
                    \E a \in GoodPrefix(RequestedUserApps, SnakeCaseRule) :
                        p = <<Apps, a \o <<".cxx">> >>
    /\ HasBadTestApp =>
          /\ pc \notin AfterTestApps
          /\ \A p \in DOMAIN files :
                IsTestAppFile(p) =>
                    \E a \in GoodPrefix(RequestedTestApps, SnakeCaseRule) :
                        p = <<Test, Apps, a \o <<".cxx">> >>
    /\ (message \in {UserAppMessage, TestAppMessage} =>
            NothingLeft /\ pc = "failed" /\ exit_code = 1)

\* the abort on the second application of the list, after the first was written
C2_Witness ==
    /\ message = UserAppMessage
    /\ idx = 2
    /\ SnakeCaseRule(RequestedUserApps[1])
    /\ NothingLeft

-----------------------------------------------------------------------------
(* C3 *)

CloneMessages ==
    {"git clone: no repository, or the directory exists", "git clone: unexpected error"}

\* C3, as stated: a failure of git clone, git mv, curl or git add ends the
\* run with status 1 and nothing of the clone left; a failure of git commit
\* ends it with status 1.
C3_CleanupOnAllButCommit ==
    /\ message \in CloneMessages \cup {"git mv of README.md failed",
                    "download of Config.cmake.in failed", "git add failed"} =>
          /\ dirs = {} /\ DOMAIN files = {}
          /\ pc = "failed" /\ exit_code = 1
    /\ message = "git commit failed" => pc = "failed" /\ exit_code = 1

\* C3, amended: every failure of an external command (git clone, git mv of
\* the readme, curl, git add, git commit) ends the run with status 1 and no
\* later step runs.  The cloned directory is deleted on a failure of git mv
\* and of curl only; a failed git clone leaves nothing of a clone, and a
\* failed git add, like a failed git commit, leaves the generated tree in
\* place.
C3_FatalExternalFailures ==
    /\ message \in CloneMessages \cup {"git mv of README.md failed",
                    "download of Config.cmake.in failed", "git add failed",
                    "git commit failed"} =>
          pc = "failed" /\ exit_code = 1 /\ ~ENABLED Next
    /\ message \in CloneMessages => dirs = {} /\ DOMAIN files = {}
    /\ message \in {"git mv of README.md failed", "download of Config.cmake.in failed"} =>
          NothingLeft
    /\ message \in {"git add failed", "git commit failed"} =>
          /\ repo_exists
          /\ << <<"CMakeLists.txt">> >> \in DOMAIN files
          /\ << <<"unittest">>, <<"Placeholder_test.cxx">> >> \in DOMAIN files

\* git add has failed and the generated tree is still there
C3_Witness ==
    /\ pc = "failed"
    /\ message = "git add failed"
    /\ repo_exists
    /\ << <<"CMakeLists.txt">> >> \in DOMAIN files

-----------------------------------------------------------------------------
(* C4, under SpecCleanup *)

\* what follows the last "/" of a path
LastSegment(path) ==
    LET slashes == { k \in DOMAIN path : path[k] = "/" }
    IN  IF slashes = {} THEN path
        ELSE Drop(path, CHOOSE k \in slashes : \A j \in slashes : j <= k)

-----------------------------------------------------------------------------
(* C5 *)

TopLevel(tree) == { p[1] : p \in tree.dirs \cup DOMAIN tree.files }

AcceptedTopLevels == { {DotGit}, {DotGit, ReadmeMd}, {DotGit, Docs} }

Cloned == pc \notin {"start", "parse_args", "area_root", "git_clone"} /\ message \notin CloneMessages
             /\ message \notin {"no daq-buildtools environment", "usage", "no DBT_AREA_ROOT"}

-----------------------------------------------------------------------------
(* C6, under SpecModules *)

PlaceholderTokens == {RenameMe, PACKAGE, RENAMEME, package_token, renameme}

\* a template with every placeholder replaced where it stands, all at once
RECURSIVE Instantiated(_, _, _)
Instantiated(text, pkg, m) ==
    IF text = <<>> THEN <<>>
    ELSE IF StartsWith(text, RenameMe)
         THEN m \o Instantiated(Drop(text, Len(RenameMe)), pkg, m)
    ELSE IF StartsWith(text, PACKAGE)
         THEN Upper(pkg) \o Instantiated(Drop(text, Len(PACKAGE)), pkg, m)
    ELSE IF StartsWith(text, RENAMEME)
         THEN Upper(m) \o Instantiated(Drop(text, Len(RENAMEME)), pkg, m)
    ELSE IF StartsWith(text, package_token)
         THEN Lower(pkg) \o Instantiated(Drop(text, Len(package_token)), pkg, m)
    ELSE IF StartsWith(text, renameme)
         THEN Lower(m) \o Instantiated(Drop(text, Len(renameme)), pkg, m)
    ELSE <<text[1]>> \o Instantiated(Tail(text), pkg, m)

\* the file a module's k-th template becomes
ModuleFileOf(k, pkg, m) ==
    CASE k = 1 -> <<Plugins, m \o <<".hpp">> >>
      [] k = 2 -> <<Plugins, m \o <<".cpp">> >>
      [] k = 3 -> <<Schema, pkg, Lower(m) \o <<".jsonnet">> >>
      [] k = 4 -> <<Schema, pkg, Lower(m) \o <<"i","n","f","o",".jsonnet">> >>

\* C6: once the modules (all of PascalCase names) are generated, each module
\* has its header, its implementation and its two schema files, and each of
\* them holds none of the five placeholder tokens and holds the module and
\* package names, in the case form of the placeholder, wherever its template
\* had a placeholder.
C6_PlaceholdersReplaced ==
    pc = "user_apps" =>
        \A j \in DOMAIN RequestedModules : \A k \in DOMAIN ModuleTemplates :
            LET m == RequestedModules[j]
                f == ModuleFileOf(k, package, m)
            IN  /\ f \in DOMAIN files
                /\ (\A h \in DOMAIN RequestedModules : h > j =>
                        f \notin ModuleFilesOf(package, RequestedModules[h])) =>
                      /\ \A token \in PlaceholderTokens : ~Contains(files[f], token)
                      /\ files[f] = Instantiated(ModuleTemplates[k].text, package, m)

-----------------------------------------------------------------------------
(* C7 *)

\* the directories that make_package_dir is called on
PackageDirs ==
    { << <<"src">> >>, << <<"include">> >>, << <<"pybindsrc">> >>, <<Plugins>>,
      <<Schema, package>>, <<Apps>>, <<Test, Apps>>, << <<"unittest">> >>, <<Docs>>,
      << <<"cmake">> >> }

\* the directories the flags ask for, and the three the script always makes
ExpectedDirs ==
    (IF \E k \in DOMAIN argv : argv[k].flag = "--main-library"
     THEN { << <<"src">> >>, << <<"include">> >> } ELSE {})
    \cup (IF \E k \in DOMAIN argv : argv[k].flag = "--python-bindings"
          THEN { << <<"pybindsrc">> >> } ELSE {})
    \cup (IF RequestedModules # <<>>
          THEN { << <<"src">> >>, <<Plugins>>, <<Schema, package>> } ELSE {})
    \cup (IF RequestedUserApps # <<>> THEN { <<Apps>> } ELSE {})
    \cup (IF RequestedTestApps # <<>> THEN { <<Test, Apps>> } ELSE {})
    \cup { << <<"unittest">> >>, <<Docs>>, << <<"cmake">> >> }

\* C7: after a full successful run, the directories made by make_package_dir
\* are those the flags ask for; each of them that holds a file or a directory
\* holds no .gitkeep, and each of them that holds nothing else holds .gitkeep;
\* nor does any directory above them (schema/, test/) hold a .gitkeep.
C7_GitKeepOnlyInEmptyDirs ==
    pc = "done" =>
        /\ PackageDirs \cap dirs = ExpectedDirs
        /\ \A d \in ExpectedDirs :
              IF ListDir(FS, d) \ {GitKeep} # {}
              THEN (d \o <<GitKeep>>) \notin DOMAIN files
              ELSE (d \o <<GitKeep>>) \in DOMAIN files
        /\ \A d \in dirs \ {<<DotGit>>} :
              ListDir(FS, d) \ {GitKeep} # {} => (d \o <<GitKeep>>) \notin DOMAIN files

\* a full run with --daq-module: src/ is empty and keeps its marker, plugins/
\* is filled and has lost it
C7_Witness ==
    /\ pc = "done"
    /\ << <<"src">>, GitKeep >> \in DOMAIN files
    /\ <<Plugins>> \in dirs
    /\ <<Plugins, GitKeep>> \notin DOMAIN files

-----------------------------------------------------------------------------
(* C8 *)

\* the writes that print_cmakelists_section makes for a fragment: a line
\* break and the fragment
FragmentLines == SelectSeq(cmakelists, LAMBDA w : Head(w) = "\n")

\* the section a written line belongs to, from how it starts
SectionOf(w) ==
    LET start == w[2]
    IN  CASE start = "find_package(" \/ start = BoostFindPackage[1] -> 1
          [] start = "daq_codegen(" -> 2
          [] start = LibraryCall[1] -> 3
          [] start = PythonBindingsCall[1] -> 4
          [] start = "daq_add_plugin(" -> 5
          [] start = "daq_add_application(" -> 6
          [] start = UnitTestCall[1] -> 7
          [] OTHER -> 0

LinesOfSection(n) == SelectSeq(FragmentLines, LAMBDA w : SectionOf(w) = n)

Fragments(lines) == [k \in DOMAIN lines |-> Tail(lines[k])]

\* C8: in the CMakeLists.txt that was written, the fragments stand section
\* by section in the order package lookups, code generation, library, python
\* bindings, plugins, applications, unit tests; within a section in the
\* order in which they were appended; and the one daq_install() line is last.
C8_SectionOrder ==
    pc \in {"sweep", "git_add", "git_commit", "done"} =>
        /\ \A i, j \in DOMAIN FragmentLines :
              i < j => 1 <= SectionOf(FragmentLines[i])
                       /\ SectionOf(FragmentLines[i]) <= SectionOf(FragmentLines[j])
        /\ Fragments(LinesOfSection(1)) = calls.find_package_calls
        /\ Fragments(LinesOfSection(2)) = calls.daq_codegen_calls
        /\ Fragments(LinesOfSection(3)) = calls.daq_add_library_calls
        /\ Fragments(LinesOfSection(4)) = calls.daq_add_python_bindings_calls
        /\ Fragments(LinesOfSection(5)) = calls.daq_add_plugin_calls
        /\ Fragments(LinesOfSection(6)) = calls.daq_add_application_calls
        /\ Fragments(LinesOfSection(7)) = calls.daq_add_unit_test_calls
        /\ cmakelists[Len(cmakelists)] = DaqInstall
        /\ Cardinality({ k \in DOMAIN cmakelists : cmakelists[k] = DaqInstall }) = 1
        /\ files[<< <<"CMakeLists.txt">> >>] = Flatten(cmakelists)

\* a full run of "--user-app ab --daq-module Ab": the flags come in the
\* opposite order of their sections
C8_Witness ==
    /\ pc = "done"
    /\ Len(argv) = 2
    /\ argv[1].flag = "--user-app"
    /\ argv[2].flag = "--daq-module"
    /\ Len(LinesOfSection(5)) = 1
    /\ Len(LinesOfSection(6)) = 1

-----------------------------------------------------------------------------
(* C9 *)

Count(list, P(_)) == Cardinality({ k \in DOMAIN list : P(list[k]) })

IsSchemaCodegen(frag, m) ==
    frag = <<"daq_codegen(">> \o Lower(m) \o <<".jsonnet TEMPLATES Structs.hpp.j2 Nljs.hpp.j2)">>

IsInfoCodegen(frag, m) ==
    /\ StartsWith(frag, <<"daq_codegen(">> \o Lower(m))
    /\ Len(frag) = Len(m) + 2
    /\ frag[Len(frag)] =
         "info.jsonnet DEP_PKGS opmonlib TEMPLATES opmonlib/InfoStructs.hpp.j2 opmonlib/InfoNljs.hpp.j2)"

IsPluginOf(frag, m) == StartsWith(frag, <<"daq_add_plugin(">> \o m) /\ Len(frag) = Len(m) + 2

\* C9: in a successful run with n --daq-module occurrences there are n
\* plugin fragments and 2n code-generation fragments, the k-th module's
\* plugin at place k and its schema and info fragments at places 2k-1 and
\* 2k; the lookups of appfwk and opmonlib stand once each when n >= 1 and
\* not at all when n = 0, where the lookups are the one of Boost alone.
C9_FragmentCounts ==
    pc = "done" =>
        LET n == Len(RequestedModules)
            once == IF n >= 1 THEN 1 ELSE 0
        IN  /\ Len(calls.daq_add_plugin_calls) = n
            /\ Len(calls.daq_codegen_calls) = 2 * n
            /\ \A k \in 1..n :
                  /\ IsPluginOf(calls.daq_add_plugin_calls[k], RequestedModules[k])
                  /\ IsSchemaCodegen(calls.daq_codegen_calls[2 * k - 1], RequestedModules[k])
                  /\ IsInfoCodegen(calls.daq_codegen_calls[2 * k], RequestedModules[k])
            /\ Count(calls.find_package_calls,
                     LAMBDA f : f = <<"find_package(", "appfwk", " REQUIRED)">>) = once
            /\ Count(calls.find_package_calls,
                     LAMBDA f : f = <<"find_package(", "opmonlib", " REQUIRED)">>) = once
            /\ Count(calls.find_package_calls, LAMBDA f : f = BoostFindPackage) = 1
            /\ Len(calls.find_package_calls) = 2 * once + 1

\* a full run with two --daq-module occurrences
C9_Witness ==
    /\ pc = "done"
    /\ Len(RequestedModules) = 2
    /\ Len(calls.daq_codegen_calls) = 4

-----------------------------------------------------------------------------
(* C10 *)

\* C10: after a full successful run every file of the clone is where it was,
\* with the content it had; the README.md of the top level alone may have
\* moved, unchanged, to docs/README.md.
C10_ClonedFilesKept ==
    pc = "done" =>
        \A p \in DOMAIN remote.files :
            \/ p \in DOMAIN files /\ files[p] = remote.files[p]
            \/ /\ p = <<ReadmeMd>>
               /\ <<Docs, ReadmeMd>> \in DOMAIN files
               /\ files[<<Docs, ReadmeMd>>] = remote.files[p]

=============================================================================
